---- MODULE Spec2Model ----
(***************************************************************************)
(* Axis state machine of the ODrive firmware (Axis::run_state_machine_loop *)
(* and the control-loop handlers it dispatches), as a state machine of one *)
(* worker thread plus its environment (telemetry writes, motor faults).    *)
(***************************************************************************)
EXTENDS Integers, Naturals, Sequences, FiniteSets, TLC

(* ------------------------------------------------------------------ *)
(* Bounds of the exploration                                            *)
(* ------------------------------------------------------------------ *)
MaxWrites == 1
MaxTicks == 3
MaxHomingTicks == 4
MaxFaults == 1
MaxSteps == 2
MaxOtherTicks == 2
SpinUpTicks == 1
CURRENT_MEAS_HZ == 1000

(* ------------------------------------------------------------------ *)
(* Axis::State_t, in the order the state list of the design gives       *)
(* ------------------------------------------------------------------ *)
AXIS_STATE_UNDEFINED == 0
AXIS_STATE_IDLE == 1
AXIS_STATE_STARTUP_SEQUENCE == 2
AXIS_STATE_FULL_CALIBRATION_SEQUENCE == 3
AXIS_STATE_MOTOR_CALIBRATION == 4
AXIS_STATE_ENCODER_INDEX_SEARCH == 5
AXIS_STATE_ENCODER_OFFSET_CALIBRATION == 6
AXIS_STATE_HOMING == 7
AXIS_STATE_CLOSED_LOOP_CONTROL == 8
AXIS_STATE_SENSORLESS_CONTROL == 9

State_t == AXIS_STATE_UNDEFINED..AXIS_STATE_SENSORLESS_CONTROL

TASK_CHAIN_LEN == 10

\* a 32-bit unsigned value is kept as its two 16-bit halves
HALF == 65536
U32(h, l) == [hi |-> h, lo |-> l]
\* (a + n) mod 2^32, for 0 <= n < 2^16
U32Add(a, n) ==
    [hi |-> (a.hi + ((a.lo + n) \div HALF)) % HALF, lo |-> (a.lo + n) % HALF]
\* a <= b as unsigned values
U32Le(a, b) == a.hi < b.hi \/ (a.hi = b.hi /\ a.lo <= b.lo)

HOMING_STATE_INACTIVE == "Inactive"
HOMING_STATE_HOMING == "Homing"
HOMING_STATE_MOVE_TO_ZERO == "MoveToZero"

ERROR_INVALID_STATE == "InvalidState"
ERROR_DC_BUS_UNDER_VOLTAGE == "DcBusUnderVoltage"
ERROR_DC_BUS_OVER_VOLTAGE == "DcBusOverVoltage"
ERROR_BRAKE_RESISTOR_DISARMED == "BrakeResistorDisarmed"
ERROR_MOTOR_DISARMED == "MotorDisarmed"
ERROR_MOTOR_FAILED == "MotorFailed"
ERROR_ENCODER_FAILED == "EncoderFailed"
ERROR_CONTROLLER_FAILED == "ControllerFailed"
ERROR_CONTROL_LOOP_MISSED == "ControlLoopMissed"
ERROR_POS_CTRL_DURING_SENSORLESS == "PosCtrlDuringSensorless"
ERROR_MIN_ENDSTOP_PRESSED == "MinEndstopPressed"
ERROR_MAX_ENDSTOP_PRESSED == "MaxEndstopPressed"

VARIABLES
    pc,                  \* position of the worker in run_state_machine_loop
    task_chain_,         \* State_t task_chain_[10]; current_state_ is task_chain_[0]
    requested_state_,
    error_,              \* set of the error bits that are set
    homing_state_,
    loop_counter_,
    loop_counter_check,  \* file-scope deadline of the homing phase
    finding_min_endstop, \* file-scope homing phase flag
    armed,               \* motor_.armed_state_ != ARMED_STATE_DISARMED
    is_calibrated_,      \* motor_.is_calibrated_
    is_ready_,           \* encoder_.is_ready_
    config_,             \* axis, encoder and endstop configuration
    status,              \* bool status of the handler that just returned
    ramp,                \* ticks done by the running spin-up stage (x, vel)
    writes_left,         \* external writes still explored
    ticks_left,          \* control-loop ticks still explored
    faults_left,         \* failures of the board and of collaborators still explored
    \* ---- history of the run, read only by the properties ----
    loaded,              \* request expanded by the last load, its config outcome
    trace,               \* states dispatched since the last load
    all_ok,              \* every handler since the last load returned true
    tick_in,             \* what the last tick saw and did
    zero_run,            \* consecutive zero-velocity ticks in the homing phase
    \* ---- the request expansion ----
    pos,                 \* size_t pos of the expansion in progress
    \* ---- step/direction input ----
    enable_step_dir_,
    pos_setpoint_,       \* controller_.pos_setpoint_, in half counts
    steps_left,          \* step-pin edges still explored
    \* ---- encoder and endstop offsets ----
    shadow_range,        \* the shadow counts the encoder can report
    offset_from_home,    \* offset_from_home of the min and of the max endstop
    linear_count,        \* last argument of encoder_.set_linear_count
    \* ---- the second axis of the board ----
    axis1,               \* its tick counter and what it is running
    own                  \* history: phase flag, deadline and counts this axis recorded

vars == <<pc, task_chain_, requested_state_, error_, homing_state_, loop_counter_,
          loop_counter_check, finding_min_endstop, armed, is_calibrated_, is_ready_,
          config_, status, ramp, writes_left, ticks_left, faults_left,
          loaded, trace, all_ok, tick_in, zero_run,
          pos, enable_step_dir_, pos_setpoint_, steps_left, shadow_range,
          offset_from_home, linear_count, axis1, own>>

stepvars == <<enable_step_dir_, pos_setpoint_, steps_left>>
encvars == <<shadow_range, offset_from_home, linear_count>>

current_state_ == task_chain_[0]

(* ------------------------------------------------------------------ *)
(* Request expansion, run_state_machine_loop lines 311..346             *)
(* ------------------------------------------------------------------ *)
Opt(cond, s) == IF cond THEN <<s>> ELSE <<>>

\* variant: the homing entry is queued behind the closed-loop entry
ExpandStartupSwapped(cfg) ==
    Opt(cfg.startup_motor_calibration, AXIS_STATE_MOTOR_CALIBRATION)
    \o Opt(cfg.startup_encoder_index_search /\ cfg.use_index, AXIS_STATE_ENCODER_INDEX_SEARCH)
    \o Opt(cfg.startup_encoder_offset_calibration, AXIS_STATE_ENCODER_OFFSET_CALIBRATION)
    \o (IF cfg.startup_closed_loop_control
        THEN <<AXIS_STATE_CLOSED_LOOP_CONTROL>> \o Opt(cfg.startup_homing, AXIS_STATE_HOMING)
        ELSE Opt(cfg.startup_sensorless_control, AXIS_STATE_SENSORLESS_CONTROL))
    \o <<AXIS_STATE_IDLE>>

\* variant: the sensorless entry is queued also when closed-loop control is
ExpandStartupBothControl(cfg) ==
    Opt(cfg.startup_motor_calibration, AXIS_STATE_MOTOR_CALIBRATION)
    \o Opt(cfg.startup_encoder_index_search /\ cfg.use_index, AXIS_STATE_ENCODER_INDEX_SEARCH)
    \o Opt(cfg.startup_encoder_offset_calibration, AXIS_STATE_ENCODER_OFFSET_CALIBRATION)
    \o (IF cfg.startup_closed_loop_control
        THEN Opt(cfg.startup_homing, AXIS_STATE_HOMING) \o <<AXIS_STATE_CLOSED_LOOP_CONTROL>>
        ELSE <<>>)
    \o Opt(cfg.startup_sensorless_control, AXIS_STATE_SENSORLESS_CONTROL)
    \o <<AXIS_STATE_IDLE>>

ExpandStartup(cfg) ==
    Opt(cfg.startup_motor_calibration, AXIS_STATE_MOTOR_CALIBRATION)
    \o Opt(cfg.startup_encoder_index_search /\ cfg.use_index, AXIS_STATE_ENCODER_INDEX_SEARCH)
    \o Opt(cfg.startup_encoder_offset_calibration, AXIS_STATE_ENCODER_OFFSET_CALIBRATION)
    \o (IF cfg.startup_closed_loop_control
        THEN Opt(cfg.startup_homing, AXIS_STATE_HOMING) \o <<AXIS_STATE_CLOSED_LOOP_CONTROL>>
        ELSE Opt(cfg.startup_sensorless_control, AXIS_STATE_SENSORLESS_CONTROL))
    \o <<AXIS_STATE_IDLE>>

\* variant: the index search is queued regardless of use_index, after the offset calibration
ExpandFullCalibrationSwapped(cfg) ==
    <<AXIS_STATE_MOTOR_CALIBRATION, AXIS_STATE_ENCODER_OFFSET_CALIBRATION,
      AXIS_STATE_ENCODER_INDEX_SEARCH, AXIS_STATE_IDLE>>

ExpandFullCalibration(cfg) ==
    <<AXIS_STATE_MOTOR_CALIBRATION>>
    \o Opt(cfg.use_index, AXIS_STATE_ENCODER_INDEX_SEARCH)
    \o <<AXIS_STATE_ENCODER_OFFSET_CALIBRATION, AXIS_STATE_IDLE>>

\* variant: a single state is queued without the trailing Idle
ExpandOtherNoIdle(req) == <<req>>

ExpandOther(req) == <<req, AXIS_STATE_IDLE>>

\* the entries written before the terminator
Expand(req, cfg) ==
    IF req = AXIS_STATE_STARTUP_SEQUENCE THEN ExpandStartup(cfg)
    ELSE IF req = AXIS_STATE_HOMING
         THEN <<AXIS_STATE_HOMING, AXIS_STATE_CLOSED_LOOP_CONTROL, AXIS_STATE_IDLE>>
    ELSE IF req = AXIS_STATE_FULL_CALIBRATION_SEQUENCE THEN ExpandFullCalibration(cfg)
    ELSE IF req # AXIS_STATE_UNDEFINED THEN ExpandOther(req)
    ELSE <<>>

\* task_chain_[pos++] = ... for every entry of one branch, from pos = 0
WriteEntries(tc, entries) ==
    [i \in 0..(TASK_CHAIN_LEN - 1) |->
        IF i < Len(entries) THEN entries[i + 1] ELSE tc[i]]

\* variant: the terminator is not written
WriteTerminatorSkipped(tc, p) == tc

\* line 342: task_chain_[pos++] = AXIS_STATE_UNDEFINED
WriteTerminator(tc, p) ==
    [i \in 0..(TASK_CHAIN_LEN - 1) |-> IF i = p THEN AXIS_STATE_UNDEFINED ELSE tc[i]]

\* variant: every error bit is dropped with the invalid state
ClearAllErrors(err) == {}

\* line 345: error_ &= ~ERROR_INVALID_STATE
ClearInvalidState(err) == err \ {ERROR_INVALID_STATE}

\* memcpy(task_chain_, task_chain_ + 1, sizeof(task_chain_) - sizeof(task_chain_[0]))
ShiftLeft(tc) ==
    [i \in 0..(TASK_CHAIN_LEN - 1) |->
        IF i < TASK_CHAIN_LEN - 1 THEN tc[i + 1] ELSE tc[i]]

\* variant: a failed handler leaves the chain as it is
AdvanceNoIdle(tc, st) == IF ~st THEN tc ELSE ShiftLeft(tc)

\* variant: the chain is shifted whatever the status
AdvanceAlways(tc, st) == ShiftLeft(tc)

\* lines 397..401
Advance(tc, st) ==
    IF ~st THEN [tc EXCEPT ![0] = AXIS_STATE_IDLE] ELSE ShiftLeft(tc)

\* variant: only the encoder prerequisite is checked
ValidateEncoderOnly(tc, cal, rdy) ==
    IF tc[0] > AXIS_STATE_ENCODER_OFFSET_CALIBRATION /\ ~rdy
    THEN [tc EXCEPT ![0] = AXIS_STATE_UNDEFINED] ELSE tc

\* lines 350..354
Validate(tc, cal, rdy) ==
    LET t1 == IF tc[0] > AXIS_STATE_MOTOR_CALIBRATION /\ ~cal
              THEN [tc EXCEPT ![0] = AXIS_STATE_UNDEFINED] ELSE tc
    IN IF t1[0] > AXIS_STATE_ENCODER_OFFSET_CALIBRATION /\ ~rdy
       THEN [t1 EXCEPT ![0] = AXIS_STATE_UNDEFINED] ELSE t1

check_for_errors(err) == err = {}

\* variant: the direction pin is not read, every edge counts up
step_cb_up(enabled, setpoint, dir_pin, counts_per_step) ==
    IF enabled THEN setpoint + counts_per_step ELSE setpoint

\* Axis::step_cb, lines 74..80: the new controller_.pos_setpoint_
step_cb(enabled, setpoint, dir_pin, counts_per_step) ==
    IF enabled
    THEN setpoint + (IF dir_pin THEN 1 ELSE -1) * counts_per_step
    ELSE setpoint

\* variant: the step input stays enabled when the handler asks to disable it
set_step_dir_left_on(enable) == TRUE

\* Axis::set_step_dir_enabled: the value enable_step_dir_ has when it returns; the
\* step handler is subscribed exactly while the flag is set
set_step_dir_enabled(enable) == enable

(* ------------------------------------------------------------------ *)
(* Per-tick helpers                                                     *)
(* ------------------------------------------------------------------ *)
\* loop_counter_ + (CURRENT_MEAS_HZ * min_ms_homing) / 1000, as unsigned int
Window(ms) == (CURRENT_MEAS_HZ * ms) \div 1000
Deadline(lc, ms) == U32Add(lc, Window(ms))

\* what the board reports in one tick: at most one fault at a time is drawn
EnvInputs ==
    { e \in [brake_resistor_armed : BOOLEAN, vbus : {"low", "ok", "high"},
             motor_err : BOOLEAN, encoder_err : BOOLEAN] :
        Cardinality({x \in {"b", "v", "m", "e"} :
                        \/ (x = "b" /\ ~e.brake_resistor_armed)
                        \/ (x = "v" /\ e.vbus # "ok")
                        \/ (x = "m" /\ e.motor_err)
                        \/ (x = "e" /\ e.encoder_err)}) <= 1 }

Healthy == [brake_resistor_armed |-> TRUE, vbus |-> "ok", motor_err |-> FALSE,
            encoder_err |-> FALSE]

\* Axis::do_updates: encoder_.update() may report through set_error
do_updates(err, env) ==
    err \cup (IF env.encoder_err THEN {ERROR_ENCODER_FAILED} ELSE {})

\* Axis::do_checks
do_checks(err, cs, arm, env) ==
    err
    \cup (IF ~env.brake_resistor_armed THEN {ERROR_BRAKE_RESISTOR_DISARMED} ELSE {})
    \cup (IF cs # AXIS_STATE_IDLE /\ ~arm THEN {ERROR_MOTOR_DISARMED} ELSE {})
    \cup (IF env.vbus = "low" THEN {ERROR_DC_BUS_UNDER_VOLTAGE} ELSE {})
    \cup (IF env.vbus = "high" THEN {ERROR_DC_BUS_OVER_VOLTAGE} ELSE {})
    \cup (IF env.motor_err THEN {ERROR_MOTOR_FAILED} ELSE {})

\* wait step of run_control_loop: a timeout is fatal unless the axis is Idle
Missed(timeout, cs) == timeout /\ cs # AXIS_STATE_IDLE

\* run_control_loop up to the call of the tick body.
\* quit_idle: whether the Idle loop leaves on accumulated errors (the design
\* text states both, so both are explored).
LoopPrefix(timeout, env, quit_idle) ==
    LET cs == current_state_
        missed == Missed(timeout, cs)
        e1 == IF missed THEN error_ \cup {ERROR_CONTROL_LOOP_MISSED} ELSE error_
        lc == IF missed THEN loop_counter_ ELSE U32Add(loop_counter_, 1)
        e3 == IF missed THEN e1 ELSE do_checks(do_updates(e1, env), cs, armed, env)
        errexit == ~missed /\ ~check_for_errors(e3)
                   /\ (cs # AXIS_STATE_IDLE \/ quit_idle)
    IN [missed |-> missed, error |-> e3, lc |-> lc, body |-> ~missed /\ ~errexit]

\* run_control_loop after the tick body: leave on false or on a pending request
LoopExit(pre, body_ok) ==
    ~pre.body \/ ~body_ok \/ requested_state_ # AXIS_STATE_UNDEFINED

NoTick == [kind |-> "none", timeout |-> FALSE, missed |-> FALSE, body |-> FALSE,
           exit |-> FALSE, own_bits |-> {}, trans |-> FALSE, endstop |-> FALSE,
           vel_zero |-> FALSE, reached |-> FALSE, zr |-> 0,
           move_to_zero |-> FALSE, min |-> FALSE, replan |-> FALSE]

EnvBits(env) ==
    (IF env.encoder_err THEN {ERROR_ENCODER_FAILED} ELSE {})
    \cup (IF ~env.brake_resistor_armed THEN {ERROR_BRAKE_RESISTOR_DISARMED} ELSE {})
    \cup (IF env.vbus = "low" THEN {ERROR_DC_BUS_UNDER_VOLTAGE} ELSE {})
    \cup (IF env.vbus = "high" THEN {ERROR_DC_BUS_OVER_VOLTAGE} ELSE {})
    \cup (IF env.motor_err THEN {ERROR_MOTOR_FAILED} ELSE {})

\* variant: zero velocity counts before the deadline
FoundEndNoDeadline(vel_zero, check, lc) == vel_zero

\* line 218: found_end
FoundEnd(vel_zero, check, lc) == vel_zero /\ U32Le(check, lc)

(* ------------------------------------------------------------------ *)
(* Single-precision arithmetic of lines 245..247                        *)
(* ------------------------------------------------------------------ *)
Abs(n) == IF n < 0 THEN -n ELSE n

\* n / d rounded to the nearest integer, ties to even (n >= 0, d > 0)
RoundHalfEven(n, d) ==
    LET q == n \div d
        r == n % d
    IN IF 2 * r < d THEN q
       ELSE IF 2 * r > d THEN q + 1
       ELSE IF q % 2 = 0 THEN q ELSE q + 1

\* the float nearest to n / d (0 < n <= d): mantissa m of 24 bits, value m / 2^k
F32Div(n, d) ==
    LET k == CHOOSE k \in 0..30 :
                 n * 2^k >= d * 2^23 /\ (k = 0 \/ n * 2^(k - 1) < d * 2^23)
    IN [m |-> RoundHalfEven(n * 2^k, d), k |-> k]

\* (int32_t)((t * 1.0f) * f): the product rounded to a float of 24 bits, then
\* truncated towards zero (|t| < 128)
F32MulToInt(t, f) ==
    LET p == Abs(t) * f.m
        s == CHOOSE s \in 0..8 :
                 p \div 2^s < 2^24 /\ (s = 0 \/ p \div 2^(s - 1) >= 2^24)
        r == RoundHalfEven(p, 2^s)
        q == (r * 2^s) \div 2^(f.k)
    IN IF t < 0 THEN -q ELSE q

\* line 245: -(total_cpr * 1.0f) * (home_percentage / 100.0f), stored in an int32_t
HomeOffset(total_cpr, home_percentage) ==
    -F32MulToInt(total_cpr, F32Div(home_percentage, 100))

(* ------------------------------------------------------------------ *)
(* Tick bodies                                                          *)
(* ------------------------------------------------------------------ *)
\* tick body of run_closed_loop_control_loop, lines 204..278
\* in.shadow is encoder_.shadow_count_ as this tick reads it
ClosedLoopBody(in, e, lc) ==
    LET same == [ok |-> TRUE, error |-> e, homing |-> homing_state_,
                 finding |-> finding_min_endstop, check |-> loop_counter_check,
                 trans |-> FALSE, endstop |-> FALSE,
                 offset |-> offset_from_home, linear |-> linear_count,
                 setpoint |-> pos_setpoint_, replan |-> FALSE]
    IN
    IF ~in.ctrl_ok THEN [same EXCEPT !.ok = FALSE, !.error = e \cup {ERROR_CONTROLLER_FAILED}]
    ELSE IF ~in.motor_ok THEN [same EXCEPT !.ok = FALSE, !.error = e \cup {ERROR_MOTOR_FAILED}]
    ELSE IF homing_state_ = HOMING_STATE_HOMING THEN
        LET endstop == IF finding_min_endstop THEN in.min ELSE in.max
            found_end == FoundEnd(in.vel_zero, loop_counter_check, lc)
        IN IF endstop \/ found_end
           THEN IF finding_min_endstop
                THEN LET first == [same EXCEPT
                                      !.finding = FALSE,
                                      !.check = Deadline(lc, config_.min_ms_homing),
                                      !.offset = [offset_from_home EXCEPT !.min = in.shadow],
                                      !.trans = TRUE, !.endstop = endstop]
                     IN IF config_.max_enabled THEN first
                        ELSE [first EXCEPT !.linear = config_.offset,
                                           !.setpoint = 0,
                                           !.homing = HOMING_STATE_MOVE_TO_ZERO]
                ELSE LET total_cpr == in.shadow - offset_from_home.min
                         min_off == IF config_.home_percentage > 0
                                    THEN HomeOffset(total_cpr, config_.home_percentage)
                                    ELSE config_.offset
                     IN [same EXCEPT
                            !.offset = [min |-> min_off, max |-> total_cpr + min_off],
                            !.linear = IF config_.home_percentage > 0 THEN -min_off
                                       ELSE config_.offset,
                            !.setpoint = 0,
                            !.homing = HOMING_STATE_MOVE_TO_ZERO,
                            !.trans = TRUE, !.endstop = endstop]
           ELSE same
    ELSE IF homing_state_ = HOMING_STATE_MOVE_TO_ZERO
         THEN IF ~in.min THEN [same EXCEPT !.replan = TRUE] ELSE same
    ELSE IF config_.min_enabled /\ in.min
         THEN [same EXCEPT !.ok = FALSE, !.error = e \cup {ERROR_MIN_ENDSTOP_PRESSED}]
    ELSE IF config_.max_enabled /\ in.max
         THEN [same EXCEPT !.ok = FALSE, !.error = e \cup {ERROR_MAX_ENDSTOP_PRESSED}]
    ELSE same

\* tick body of run_sensorless_control_loop, lines 180..191
SensorlessBody(in, e) ==
    IF in.pos_mode THEN [ok |-> FALSE, error |-> e \cup {ERROR_POS_CTRL_DURING_SENSORLESS}]
    ELSE IF ~in.ctrl_ok THEN [ok |-> FALSE, error |-> e \cup {ERROR_CONTROLLER_FAILED}]
    ELSE IF ~in.motor_ok THEN [ok |-> FALSE, error |-> e \cup {ERROR_MOTOR_FAILED}]
    ELSE [ok |-> TRUE, error |-> e]

\* tick bodies of run_sensorless_spin_up, lines 146..153 and 160..167
SpinUpBody(in, e, r) ==
    IF ~in.motor_ok THEN [ok |-> FALSE, error |-> e \cup {ERROR_MOTOR_FAILED}]
    ELSE [ok |-> r + 1 < SpinUpTicks, error |-> e]

(* ------------------------------------------------------------------ *)
(* Initial states                                                       *)
(* ------------------------------------------------------------------ *)
Configs ==
    [startup_motor_calibration : BOOLEAN,
     startup_encoder_index_search : BOOLEAN,
     startup_encoder_offset_calibration : BOOLEAN,
     startup_closed_loop_control : BOOLEAN,
     startup_sensorless_control : BOOLEAN,
     startup_homing : BOOLEAN,
     use_index : BOOLEAN,
     min_enabled : BOOLEAN,
     max_enabled : BOOLEAN,
     min_ms_homing : {2},
     enable_step_dir : BOOLEAN,
     counts_per_step : {25},
     home_percentage : {0, 50, 53},
     offset : {0, 7}]

\* configurations explored by the state machine runs: the full startup chain
\* with both endstops, and a sensorless startup without calibration
RunConfigs ==
    { [startup_motor_calibration |-> TRUE, startup_encoder_index_search |-> TRUE,
       startup_encoder_offset_calibration |-> TRUE, startup_closed_loop_control |-> TRUE,
       startup_sensorless_control |-> FALSE, startup_homing |-> TRUE, use_index |-> TRUE,
       min_enabled |-> TRUE, max_enabled |-> TRUE, min_ms_homing |-> 2,
       enable_step_dir |-> TRUE, counts_per_step |-> 25, home_percentage |-> 50,
       offset |-> 0],
      [startup_motor_calibration |-> FALSE, startup_encoder_index_search |-> FALSE,
       startup_encoder_offset_calibration |-> FALSE, startup_closed_loop_control |-> FALSE,
       startup_sensorless_control |-> TRUE, startup_homing |-> FALSE, use_index |-> FALSE,
       min_enabled |-> TRUE, max_enabled |-> FALSE, min_ms_homing |-> 2,
       enable_step_dir |-> TRUE, counts_per_step |-> 25, home_percentage |-> 0,
       offset |-> 7] }

\* the second axis while it is not modelled: idle, no step of it explored
NoAxis == [loop_counter_ |-> U32(0, 0), closed_loop |-> FALSE, homing |-> FALSE,
           left |-> 0]

\* the second axis of the board, about to run a homing of its own: its tick
\* counter is ahead of the first axis's
OtherAxis == [loop_counter_ |-> U32(0, 5), closed_loop |-> FALSE, homing |-> TRUE,
              left |-> MaxOtherTicks]

InitCommon ==
    /\ pc = "start"
    /\ task_chain_ = [i \in 0..(TASK_CHAIN_LEN - 1) |-> AXIS_STATE_UNDEFINED]
    /\ error_ = {}
    /\ homing_state_ = HOMING_STATE_INACTIVE
    /\ loop_counter_check = U32(0, 0)
    /\ finding_min_endstop = TRUE
    /\ armed = FALSE
    /\ status = FALSE
    /\ ramp = 0
    /\ loaded = [req |-> AXIS_STATE_UNDEFINED, prereq |-> FALSE, fresh |-> FALSE,
                 missed |-> FALSE,
                 had_invalid |-> FALSE, failed |-> FALSE, resumed |-> FALSE,
                 left |-> 0, copied |-> FALSE]
    /\ pos = 0
    /\ enable_step_dir_ = FALSE
    /\ pos_setpoint_ = 0
    /\ offset_from_home = [min |-> 0, max |-> 0]
    /\ linear_count = 0
    /\ own = [finding |-> TRUE, check |-> U32(0, 0), first |-> 0, second |-> 0,
              base |-> 0, steps |-> 0, ignored |-> FALSE]
    /\ trace = <<>>
    /\ all_ok = TRUE
    /\ tick_in = NoTick
    /\ zero_run = 0

Init ==
    /\ InitCommon
    /\ requested_state_ \in {AXIS_STATE_UNDEFINED, AXIS_STATE_STARTUP_SEQUENCE}
    /\ loop_counter_ = U32(0, 0)
    /\ is_calibrated_ \in BOOLEAN
    /\ is_ready_ \in BOOLEAN
    /\ config_ \in RunConfigs
    /\ writes_left = MaxWrites
    /\ ticks_left = MaxTicks
    /\ faults_left = MaxFaults
    /\ steps_left = 0
    /\ shadow_range = {0}
    /\ axis1 = NoAxis

\* number of failures among the drawn outcomes
Cost(fails) == Cardinality({i \in DOMAIN fails : fails[i]})

(* ------------------------------------------------------------------ *)
(* Environment                                                          *)
(* ------------------------------------------------------------------ *)
\* the telemetry link writes requested_state
WriteRequest ==
    /\ writes_left > 0
    /\ \E r \in State_t \ {AXIS_STATE_UNDEFINED} : requested_state_' = r
    /\ writes_left' = writes_left - 1
    /\ UNCHANGED <<faults_left, pc, task_chain_, error_, homing_state_, loop_counter_,
                   loop_counter_check, finding_min_endstop, armed, is_calibrated_,
                   is_ready_, config_, status, ramp, ticks_left,
                   loaded, trace, all_ok, tick_in, zero_run>>
    /\ UNCHANGED <<pos, stepvars, encvars, axis1, own>>

\* the motor disarms itself (a fault outside the axis thread)
MotorDisarms ==
    /\ armed
    /\ faults_left > 0
    /\ faults_left' = faults_left - 1
    /\ armed' = FALSE
    /\ UNCHANGED <<pc, task_chain_, requested_state_, error_, homing_state_,
                   loop_counter_, loop_counter_check, finding_min_endstop,
                   is_calibrated_, is_ready_, config_, status, ramp, writes_left,
                   ticks_left, loaded, trace, all_ok, tick_in, zero_run>>
    /\ UNCHANGED <<pos, stepvars, encvars, axis1, own>>

(* ------------------------------------------------------------------ *)
(* run_state_machine_loop                                               *)
(* ------------------------------------------------------------------ *)
\* line 307: motor_.arm()
ArmAtStart ==
    /\ pc = "start"
    /\ \E ok \in BOOLEAN :
        /\ Cost(<<~ok>>) <= faults_left
        /\ faults_left' = faults_left - Cost(<<~ok>>)
        /\ armed' = ok
    /\ pc' = "top"
    /\ UNCHANGED <<task_chain_, requested_state_, error_, homing_state_,
                   loop_counter_, loop_counter_check, finding_min_endstop,
                   is_calibrated_, is_ready_, config_, status, ramp, writes_left,
                   ticks_left, loaded, trace, all_ok, tick_in, zero_run>>
    /\ UNCHANGED <<pos, stepvars, encvars, axis1, own>>

\* what the steps of the request expansion leave alone
loadframe ==
    <<homing_state_, loop_counter_, loop_counter_check, finding_min_endstop, armed,
      is_calibrated_, is_ready_, config_, status, ramp, writes_left, ticks_left,
      faults_left, tick_in, zero_run, stepvars, encvars, axis1, own>>

\* line 311 with a request pending: size_t pos = 0
LoadBegin ==
    /\ pc = "top"
    /\ requested_state_ # AXIS_STATE_UNDEFINED
    /\ pos' = 0
    /\ pc' = "ld313"
    /\ UNCHANGED <<task_chain_, requested_state_, error_, loaded, trace, all_ok>>
    /\ UNCHANGED loadframe

\* the branch a comparison of lines 313..338 selects, and the place after it
Branch(at) ==
    CASE at = "ld313" -> [req |-> AXIS_STATE_STARTUP_SEQUENCE, else |-> "ld328"]
      [] at = "ld328" -> [req |-> AXIS_STATE_HOMING, else |-> "ld332"]
      [] at = "ld332" -> [req |-> AXIS_STATE_FULL_CALIBRATION_SEQUENCE, else |-> "ld338"]

\* one comparison of the if / else-if chain of lines 313..338; each reads
\* requested_state_ again, the branch taken writes its entries (lines 314..337)
LoadCompare ==
    /\ pc \in {"ld313", "ld328", "ld332", "ld338"}
    /\ IF pc = "ld338"
       THEN /\ pc' = IF requested_state_ # AXIS_STATE_UNDEFINED THEN "ld339" ELSE "ld343"
            /\ UNCHANGED <<task_chain_, pos, loaded>>
       ELSE IF requested_state_ = Branch(pc).req
       THEN /\ task_chain_' = WriteEntries(task_chain_, Expand(Branch(pc).req, config_))
            /\ pos' = Len(Expand(Branch(pc).req, config_))
            /\ loaded' = [loaded EXCEPT !.req = Branch(pc).req, !.copied = FALSE]
            /\ pc' = "ld343"
       ELSE /\ pc' = Branch(pc).else
            /\ UNCHANGED <<task_chain_, pos, loaded>>
    /\ UNCHANGED <<requested_state_, error_, trace, all_ok>>
    /\ UNCHANGED loadframe

\* lines 339..340: task_chain_[pos++] = requested_state_, read once more
LoadRequested ==
    /\ pc = "ld339"
    /\ task_chain_' = WriteEntries(task_chain_, ExpandOther(requested_state_))
    /\ pos' = Len(ExpandOther(requested_state_))
    /\ loaded' = [loaded EXCEPT !.req = requested_state_, !.copied = TRUE]
    /\ pc' = "ld343"
    /\ UNCHANGED <<requested_state_, error_, trace, all_ok>>
    /\ UNCHANGED loadframe

\* lines 342..345: the terminator, requested_state_ = UNDEFINED, the auto-clear
LoadEnd ==
    /\ pc = "ld343"
    /\ task_chain_' = WriteTerminator(task_chain_, pos)
    /\ pos' = pos + 1
    /\ requested_state_' = AXIS_STATE_UNDEFINED
    /\ error_' = ClearInvalidState(error_)
    /\ pc' = "validate"
    /\ loaded' = [loaded EXCEPT !.prereq = is_calibrated_ /\ is_ready_,
                                !.fresh = TRUE, !.missed = FALSE,
                                !.had_invalid = ERROR_INVALID_STATE \in error_,
                                !.failed = FALSE, !.resumed = FALSE,
                                !.left = pos]
    /\ trace' = <<>>
    /\ all_ok' = TRUE
    /\ UNCHANGED loadframe

\* line 311 with no request pending
NoRequest ==
    /\ pc = "top"
    /\ requested_state_ = AXIS_STATE_UNDEFINED
    /\ pc' = "validate"
    /\ UNCHANGED <<faults_left, task_chain_, requested_state_, error_, homing_state_,
                   loop_counter_, loop_counter_check, finding_min_endstop, armed,
                   is_calibrated_, is_ready_, config_, status, ramp, writes_left,
                   ticks_left, loaded, trace, all_ok, tick_in, zero_run>>
    /\ UNCHANGED <<pos, stepvars, encvars, axis1, own>>

\* lines 350..354
ValidateState ==
    /\ pc = "validate"
    /\ task_chain_' = Validate(task_chain_, is_calibrated_, is_ready_)
    /\ pc' = "dispatch"
    /\ UNCHANGED <<faults_left, requested_state_, error_, homing_state_, loop_counter_,
                   loop_counter_check, finding_min_endstop, armed, is_calibrated_,
                   is_ready_, config_, status, ramp, writes_left, ticks_left,
                   loaded, trace, all_ok, tick_in, zero_run>>
    /\ UNCHANGED <<pos, stepvars, encvars, axis1, own>>

\* the dispatch history is kept for full calibration sequences
Record(tr, cs) ==
    IF loaded.req = AXIS_STATE_FULL_CALIBRATION_SEQUENCE /\ Len(tr) < TASK_CHAIN_LEN
    THEN Append(tr, cs) ELSE tr

Ok(all, ok) == IF loaded.req = AXIS_STATE_FULL_CALIBRATION_SEQUENCE THEN all /\ ok ELSE all

\* case AXIS_STATE_MOTOR_CALIBRATION: status = motor_.run_calibration()
RunMotorCalibration ==
    /\ pc = "dispatch"
    /\ current_state_ = AXIS_STATE_MOTOR_CALIBRATION
    /\ \E ok \in BOOLEAN :
        /\ Cost(<<~ok>>) <= faults_left
        /\ faults_left' = faults_left - Cost(<<~ok>>)
        /\ status' = ok
        /\ is_calibrated_' = (ok \/ is_calibrated_)
        /\ error_' = IF ok THEN error_ ELSE error_ \cup {ERROR_MOTOR_FAILED}
        /\ all_ok' = Ok(all_ok, ok)
    /\ pc' = "advance"
    /\ trace' = Record(trace, current_state_)
    /\ UNCHANGED <<task_chain_, requested_state_, homing_state_, loop_counter_,
                   loop_counter_check, finding_min_endstop, armed, is_ready_,
                   config_, ramp, writes_left, ticks_left, loaded, tick_in,
                   zero_run>>
    /\ UNCHANGED <<pos, stepvars, encvars, axis1, own>>

\* case AXIS_STATE_ENCODER_INDEX_SEARCH: status = encoder_.run_index_search()
RunIndexSearch ==
    /\ pc = "dispatch"
    /\ current_state_ = AXIS_STATE_ENCODER_INDEX_SEARCH
    /\ \E ok \in BOOLEAN :
        /\ Cost(<<~ok>>) <= faults_left
        /\ faults_left' = faults_left - Cost(<<~ok>>)
        /\ status' = ok
        /\ error_' = IF ok THEN error_ ELSE error_ \cup {ERROR_ENCODER_FAILED}
        /\ all_ok' = Ok(all_ok, ok)
    /\ pc' = "advance"
    /\ trace' = Record(trace, current_state_)
    /\ UNCHANGED <<task_chain_, requested_state_, homing_state_, loop_counter_,
                   loop_counter_check, finding_min_endstop, armed, is_calibrated_,
                   is_ready_, config_, ramp, writes_left, ticks_left, loaded,
                   tick_in, zero_run>>
    /\ UNCHANGED <<pos, stepvars, encvars, axis1, own>>

\* case AXIS_STATE_ENCODER_OFFSET_CALIBRATION: status = encoder_.run_offset_calibration()
RunOffsetCalibration ==
    /\ pc = "dispatch"
    /\ current_state_ = AXIS_STATE_ENCODER_OFFSET_CALIBRATION
    /\ \E ok \in BOOLEAN :
        /\ Cost(<<~ok>>) <= faults_left
        /\ faults_left' = faults_left - Cost(<<~ok>>)
        /\ status' = ok
        /\ is_ready_' = (ok \/ is_ready_)
        /\ error_' = IF ok THEN error_ ELSE error_ \cup {ERROR_ENCODER_FAILED}
        /\ all_ok' = Ok(all_ok, ok)
    /\ pc' = "advance"
    /\ trace' = Record(trace, current_state_)
    /\ UNCHANGED <<task_chain_, requested_state_, homing_state_, loop_counter_,
                   loop_counter_check, finding_min_endstop, armed, is_calibrated_,
                   config_, ramp, writes_left, ticks_left, loaded, tick_in,
                   zero_run>>
    /\ UNCHANGED <<pos, stepvars, encvars, axis1, own>>

\* case AXIS_STATE_HOMING: status = controller_.home_axis()
HomeAxis ==
    /\ pc = "dispatch"
    /\ current_state_ = AXIS_STATE_HOMING
    /\ \E ok \in BOOLEAN :
        /\ Cost(<<~ok>>) <= faults_left
        /\ faults_left' = faults_left - Cost(<<~ok>>)
        /\ status' = ok
        /\ homing_state_' = IF ok THEN HOMING_STATE_HOMING ELSE homing_state_
        /\ all_ok' = Ok(all_ok, ok)
    /\ pc' = "advance"
    /\ trace' = Record(trace, current_state_)
    /\ UNCHANGED <<task_chain_, requested_state_, error_, loop_counter_,
                   loop_counter_check, finding_min_endstop, armed, is_calibrated_,
                   is_ready_, config_, ramp, writes_left, ticks_left, loaded,
                   tick_in, zero_run>>
    /\ UNCHANGED <<pos, stepvars, encvars, axis1, own>>

\* case AXIS_STATE_SENSORLESS_CONTROL: entry of run_sensorless_spin_up
EnterSensorless ==
    /\ pc = "dispatch"
    /\ current_state_ = AXIS_STATE_SENSORLESS_CONTROL
    /\ pc' = "spin_up_1"
    /\ ramp' = 0
    /\ trace' = Record(trace, current_state_)
    /\ UNCHANGED <<faults_left, task_chain_, requested_state_, error_, homing_state_,
                   loop_counter_, loop_counter_check, finding_min_endstop, armed,
                   is_calibrated_, is_ready_, config_, status, writes_left,
                   ticks_left, loaded, all_ok, tick_in, zero_run>>
    /\ UNCHANGED <<pos, stepvars, encvars, axis1, own>>

\* case AXIS_STATE_CLOSED_LOOP_CONTROL: lines 201..203
EnterClosedLoop ==
    /\ pc = "dispatch"
    /\ current_state_ = AXIS_STATE_CLOSED_LOOP_CONTROL
    /\ enable_step_dir_' = set_step_dir_enabled(config_.enable_step_dir)
    /\ finding_min_endstop' = TRUE
    /\ loop_counter_check' = Deadline(loop_counter_, config_.min_ms_homing)
    /\ own' = [own EXCEPT !.finding = TRUE,
                          !.check = Deadline(loop_counter_, config_.min_ms_homing)]
    /\ pc' = "closed_loop"
    /\ trace' = Record(trace, current_state_)
    /\ zero_run' = 0
    /\ UNCHANGED <<faults_left, task_chain_, requested_state_, error_, homing_state_,
                   loop_counter_, armed, is_calibrated_, is_ready_, config_,
                   status, ramp, writes_left, ticks_left, loaded, all_ok, tick_in>>
    /\ UNCHANGED <<pos, pos_setpoint_, steps_left, encvars, axis1>>

\* variant: the idle loop is entered without disarming
EnterIdleNoDisarm ==
    /\ pc = "dispatch"
    /\ current_state_ = AXIS_STATE_IDLE
    /\ pc' = "idle_loop"
    /\ trace' = Record(trace, current_state_)
    /\ UNCHANGED <<faults_left, task_chain_, requested_state_, error_, homing_state_,
                   loop_counter_, loop_counter_check, finding_min_endstop, armed,
                   is_calibrated_, is_ready_, config_, status, ramp, writes_left,
                   ticks_left, loaded, all_ok, tick_in, zero_run>>
    /\ UNCHANGED <<pos, stepvars, encvars, axis1, own>>

\* case AXIS_STATE_IDLE: run_idle_loop line 286, safety_critical_disarm_motor_pwm
EnterIdle ==
    /\ pc = "dispatch"
    /\ current_state_ = AXIS_STATE_IDLE
    /\ armed' = FALSE
    /\ pc' = "idle_loop"
    /\ trace' = Record(trace, current_state_)
    /\ UNCHANGED <<faults_left, task_chain_, requested_state_, error_, homing_state_,
                   loop_counter_, loop_counter_check, finding_min_endstop,
                   is_calibrated_, is_ready_, config_, status, ramp, writes_left,
                   ticks_left, loaded, all_ok, tick_in, zero_run>>
    /\ UNCHANGED <<pos, stepvars, encvars, axis1, own>>

\* default: error_ |= ERROR_INVALID_STATE; status = false
InvalidState ==
    /\ pc = "dispatch"
    /\ current_state_ \in {AXIS_STATE_UNDEFINED, AXIS_STATE_STARTUP_SEQUENCE,
                           AXIS_STATE_FULL_CALIBRATION_SEQUENCE}
    /\ error_' = error_ \cup {ERROR_INVALID_STATE}
    /\ status' = FALSE
    /\ all_ok' = Ok(all_ok, FALSE)
    /\ pc' = "advance"
    /\ trace' = Record(trace, current_state_)
    /\ UNCHANGED <<faults_left, task_chain_, requested_state_, homing_state_, loop_counter_,
                   loop_counter_check, finding_min_endstop, armed, is_calibrated_,
                   is_ready_, config_, ramp, writes_left, ticks_left, loaded,
                   tick_in, zero_run>>
    /\ UNCHANGED <<pos, stepvars, encvars, axis1, own>>

\* lines 397..401
AdvanceTaskChain ==
    /\ pc = "advance"
    /\ task_chain_' = Advance(task_chain_, status)
    /\ pc' = "top"
    /\ status' = FALSE
    /\ tick_in' = NoTick
    /\ loaded' = [loaded EXCEPT !.fresh = FALSE,
                                !.missed = (tick_in.kind # "none" /\ tick_in.missed),
                                !.failed = (loaded.failed \/ (~status /\ loaded.left > 1)),
                                !.resumed = (loaded.resumed \/ (loaded.failed /\ status)),
                                !.left = IF status /\ loaded.left > 0
                                         THEN loaded.left - 1 ELSE loaded.left]
    /\ UNCHANGED <<faults_left, requested_state_, error_, homing_state_, loop_counter_,
                   loop_counter_check, finding_min_endstop, armed, is_calibrated_,
                   is_ready_, config_, ramp, writes_left, ticks_left,
                   trace, all_ok, zero_run>>
    /\ UNCHANGED <<pos, stepvars, encvars, axis1, own>>

(* ------------------------------------------------------------------ *)
(* Control-loop ticks: run_control_loop with the handler's tick body    *)
(* ------------------------------------------------------------------ *)
ClosedLoopInputs ==
    [ctrl_ok : BOOLEAN, motor_ok : BOOLEAN, vel_zero : BOOLEAN,
     min : BOOLEAN, max : BOOLEAN, shadow : shadow_range]

SensorlessInputs == [ctrl_ok : BOOLEAN, motor_ok : BOOLEAN, pos_mode : BOOLEAN]

\* own_bits: the bits this tick set that the board did not report
TickRecord(kind, timeout, env, pre, exit, newerr) ==
    [NoTick EXCEPT !.kind = kind, !.timeout = timeout, !.missed = pre.missed,
                   !.body = pre.body, !.exit = exit,
                   !.own_bits = (newerr \ error_) \ EnvBits(env)]

\* one tick of run_closed_loop_control_loop; leaving the loop runs lines 279..280
TickClosedLoop ==
    /\ pc = "closed_loop"
    /\ ticks_left > 0
    /\ \E timeout \in BOOLEAN, env \in EnvInputs, in \in ClosedLoopInputs :
        LET pre == LoopPrefix(timeout, env, FALSE)
            b == IF pre.body THEN ClosedLoopBody(in, pre.error, pre.lc)
                 ELSE [ok |-> FALSE, error |-> pre.error, homing |-> homing_state_,
                       finding |-> finding_min_endstop, check |-> loop_counter_check,
                       trans |-> FALSE, endstop |-> FALSE,
                       offset |-> offset_from_home, linear |-> linear_count,
                       setpoint |-> pos_setpoint_, replan |-> FALSE]
            exit == LoopExit(pre, b.ok)
            homing == homing_state_ = HOMING_STATE_HOMING /\ ~pre.missed
            zr == IF ~homing THEN zero_run ELSE IF in.vel_zero THEN zero_run + 1 ELSE 0
            cost == Cost(<<timeout, env # Healthy, ~in.ctrl_ok, ~in.motor_ok>>)
            move_to_zero == /\ pre.body /\ in.ctrl_ok /\ in.motor_ok
                            /\ homing_state_ = HOMING_STATE_MOVE_TO_ZERO
            rec == TickRecord("closed_loop", timeout, env, pre, exit, b.error)
        IN
        /\ cost <= faults_left
        /\ faults_left' = faults_left - cost
        /\ error_' = b.error
        /\ loop_counter_' = pre.lc
        /\ homing_state_' = b.homing
        /\ finding_min_endstop' = b.finding
        /\ loop_counter_check' = b.check
        /\ offset_from_home' = b.offset
        /\ linear_count' = b.linear
        /\ pos_setpoint_' = b.setpoint
        /\ enable_step_dir_' = IF exit THEN set_step_dir_enabled(FALSE)
                               ELSE enable_step_dir_
        /\ own' = IF ~b.trans THEN own
                  ELSE LET o == IF finding_min_endstop
                                THEN [own EXCEPT !.finding = b.finding,
                                                 !.check = b.check,
                                                 !.first = in.shadow]
                                ELSE [own EXCEPT !.second = in.shadow]
                       IN IF b.homing = HOMING_STATE_MOVE_TO_ZERO
                          THEN [o EXCEPT !.base = b.setpoint, !.steps = 0]
                          ELSE o
        /\ zero_run' = IF b.trans \/ exit THEN 0 ELSE zr
        /\ tick_in' = IF b.trans
                      THEN [rec EXCEPT !.trans = TRUE, !.endstop = b.endstop,
                                       !.vel_zero = in.vel_zero,
                                       !.reached = U32Le(loop_counter_check, pre.lc),
                                       !.zr = zr]
                      ELSE IF move_to_zero
                      THEN [rec EXCEPT !.move_to_zero = TRUE, !.min = in.min,
                                       !.replan = b.replan]
                      ELSE rec
        /\ pc' = IF exit THEN "advance" ELSE pc
        /\ status' = IF exit THEN check_for_errors(b.error) ELSE status
        /\ all_ok' = IF exit THEN Ok(all_ok, check_for_errors(b.error)) ELSE all_ok
    /\ ticks_left' = ticks_left - 1
    /\ UNCHANGED <<task_chain_, requested_state_, armed, is_calibrated_, is_ready_,
                   config_, ramp, writes_left, loaded, trace>>
    /\ UNCHANGED <<pos, steps_left, shadow_range, axis1>>

\* one tick of run_sensorless_control_loop; leaving the loop runs lines 192..193
TickSensorless ==
    /\ pc = "sensorless_loop"
    /\ ticks_left > 0
    /\ \E timeout \in BOOLEAN, env \in EnvInputs, in \in SensorlessInputs :
        LET pre == LoopPrefix(timeout, env, FALSE)
            b == IF pre.body THEN SensorlessBody(in, pre.error)
                 ELSE [ok |-> FALSE, error |-> pre.error]
            exit == LoopExit(pre, b.ok)
            cost == Cost(<<timeout, env # Healthy, ~in.ctrl_ok, ~in.motor_ok, in.pos_mode>>)
        IN
        /\ cost <= faults_left
        /\ faults_left' = faults_left - cost
        /\ error_' = b.error
        /\ loop_counter_' = pre.lc
        /\ tick_in' = TickRecord("sensorless_loop", timeout, env, pre, exit, b.error)
        /\ enable_step_dir_' = IF exit THEN set_step_dir_enabled(FALSE)
                               ELSE enable_step_dir_
        /\ pc' = IF exit THEN "advance" ELSE pc
        /\ status' = IF exit THEN check_for_errors(b.error) ELSE status
        /\ all_ok' = IF exit THEN Ok(all_ok, check_for_errors(b.error)) ELSE all_ok
    /\ ticks_left' = ticks_left - 1
    /\ UNCHANGED <<task_chain_, requested_state_, homing_state_, loop_counter_check,
                   finding_min_endstop, armed, is_calibrated_, is_ready_, config_,
                   ramp, writes_left, loaded, trace, zero_run>>
    /\ UNCHANGED <<pos, pos_setpoint_, steps_left, encvars, axis1, own>>

\* one tick of the first loop of run_sensorless_spin_up; lines 154..159 on exit
TickSpinUp1 ==
    /\ pc = "spin_up_1"
    /\ ticks_left > 0
    /\ \E timeout \in BOOLEAN, env \in EnvInputs, motor_ok \in BOOLEAN :
        LET pre == LoopPrefix(timeout, env, FALSE)
            b == IF pre.body THEN SpinUpBody([motor_ok |-> motor_ok], pre.error, ramp)
                 ELSE [ok |-> FALSE, error |-> pre.error]
            exit == LoopExit(pre, b.ok)
            failed == exit /\ b.error # {}
            cost == Cost(<<timeout, env # Healthy, ~motor_ok>>)
        IN
        /\ cost <= faults_left
        /\ faults_left' = faults_left - cost
        /\ error_' = b.error
        /\ loop_counter_' = pre.lc
        /\ tick_in' = TickRecord("spin_up_1", timeout, env, pre, exit, b.error)
        /\ ramp' = IF exit THEN 0 ELSE ramp + 1
        /\ pc' = IF failed THEN "advance" ELSE IF exit THEN "spin_up_2" ELSE pc
        /\ status' = IF failed THEN FALSE ELSE status
        /\ all_ok' = IF failed THEN Ok(all_ok, FALSE) ELSE all_ok
    /\ ticks_left' = ticks_left - 1
    /\ UNCHANGED <<task_chain_, requested_state_, homing_state_, loop_counter_check,
                   finding_min_endstop, armed, is_calibrated_, is_ready_, config_,
                   writes_left, loaded, trace, zero_run>>
    /\ UNCHANGED <<pos, stepvars, encvars, axis1, own>>

\* one tick of the second loop of run_sensorless_spin_up; lines 171..173 and
\* 378..379 on exit
TickSpinUp2 ==
    /\ pc = "spin_up_2"
    /\ ticks_left > 0
    /\ \E timeout \in BOOLEAN, env \in EnvInputs, motor_ok \in BOOLEAN :
        LET pre == LoopPrefix(timeout, env, FALSE)
            b == IF pre.body THEN SpinUpBody([motor_ok |-> motor_ok], pre.error, ramp)
                 ELSE [ok |-> FALSE, error |-> pre.error]
            exit == LoopExit(pre, b.ok)
            failed == exit /\ ~check_for_errors(b.error)
            cost == Cost(<<timeout, env # Healthy, ~motor_ok>>)
        IN
        /\ cost <= faults_left
        /\ faults_left' = faults_left - cost
        /\ error_' = b.error
        /\ loop_counter_' = pre.lc
        /\ tick_in' = TickRecord("spin_up_2", timeout, env, pre, exit, b.error)
        /\ ramp' = IF exit THEN 0 ELSE ramp + 1
        /\ pc' = IF failed THEN "advance" ELSE IF exit THEN "sensorless_loop" ELSE pc
        /\ enable_step_dir_' = IF exit /\ ~failed
                               THEN set_step_dir_enabled(config_.enable_step_dir)
                               ELSE enable_step_dir_
        /\ status' = IF failed THEN FALSE ELSE status
        /\ all_ok' = IF failed THEN Ok(all_ok, FALSE) ELSE all_ok
    /\ ticks_left' = ticks_left - 1
    /\ UNCHANGED <<task_chain_, requested_state_, homing_state_, loop_counter_check,
                   finding_min_endstop, armed, is_calibrated_, is_ready_, config_,
                   writes_left, loaded, trace, zero_run>>
    /\ UNCHANGED <<pos, pos_setpoint_, steps_left, encvars, axis1, own>>

\* one tick of run_idle_loop; leaving the loop runs line 388, status = motor_.arm()
TickIdle ==
    /\ pc = "idle_loop"
    /\ ticks_left > 0
    /\ \E timeout \in BOOLEAN, env \in EnvInputs, quit_idle \in BOOLEAN,
          arm_ok \in BOOLEAN :
        LET pre == LoopPrefix(timeout, env, quit_idle)
            exit == LoopExit(pre, TRUE)
            cost == Cost(<<timeout, env # Healthy, ~arm_ok>>)
        IN
        /\ cost <= faults_left
        /\ (~exit => arm_ok)
        /\ faults_left' = faults_left - cost
        /\ error_' = pre.error
        /\ loop_counter_' = pre.lc
        /\ tick_in' = TickRecord("idle_loop", timeout, env, pre, exit, pre.error)
        /\ pc' = IF exit THEN "advance" ELSE pc
        /\ status' = IF exit THEN arm_ok ELSE status
        /\ armed' = IF exit THEN arm_ok ELSE armed
        /\ all_ok' = IF exit THEN Ok(all_ok, arm_ok) ELSE all_ok
    /\ ticks_left' = ticks_left - 1
    /\ UNCHANGED <<task_chain_, requested_state_, homing_state_, loop_counter_check,
                   finding_min_endstop, is_calibrated_, is_ready_, config_, ramp,
                   writes_left, loaded, trace, zero_run>>
    /\ UNCHANGED <<pos, stepvars, encvars, axis1, own>>

\* a falling edge on the step pin: the GPIO interrupt runs step_cb to its end
\* before the worker thread continues
StepEdge ==
    /\ steps_left > 0
    /\ steps_left' = steps_left - 1
    /\ \E dir_pin \in BOOLEAN :
        /\ pos_setpoint_' = step_cb(enable_step_dir_, pos_setpoint_, dir_pin,
                                    config_.counts_per_step)
        /\ own' = IF enable_step_dir_
                  THEN [own EXCEPT !.steps = @ + (IF dir_pin THEN 1 ELSE -1)]
                  ELSE [own EXCEPT !.ignored = TRUE]
    /\ UNCHANGED <<pc, task_chain_, requested_state_, error_, homing_state_,
                   loop_counter_, loop_counter_check, finding_min_endstop, armed,
                   is_calibrated_, is_ready_, config_, status, ramp, writes_left,
                   ticks_left, faults_left, loaded, trace, all_ok, tick_in, zero_run,
                   pos, enable_step_dir_, encvars, axis1>>

\* the second Axis instance enters run_closed_loop_control_loop: lines 202..203
\* executed with its own loop_counter_ on the file-scope variables of lines
\* 197..198 (both axes are configured alike)
Axis1EnterClosedLoop ==
    /\ axis1.left > 0
    /\ ~axis1.closed_loop
    /\ finding_min_endstop' = TRUE
    /\ loop_counter_check' = Deadline(axis1.loop_counter_, config_.min_ms_homing)
    /\ axis1' = [axis1 EXCEPT !.closed_loop = TRUE, !.left = @ - 1]
    /\ UNCHANGED <<pc, task_chain_, requested_state_, error_, homing_state_,
                   loop_counter_, armed, is_calibrated_, is_ready_, config_, status,
                   ramp, writes_left, ticks_left, faults_left, loaded, trace, all_ok,
                   tick_in, zero_run, pos, stepvars, encvars, own>>

\* one tick of the second Axis instance in its closed-loop handler: lines
\* 213..232 and 242..257 as far as they touch the file-scope variables
Axis1Tick ==
    /\ axis1.left > 0
    /\ axis1.closed_loop
    /\ \E endstop \in BOOLEAN, vel_zero \in BOOLEAN :
        LET lc == U32Add(axis1.loop_counter_, 1)
            trans == /\ axis1.homing
                     /\ (endstop \/ FoundEnd(vel_zero, loop_counter_check, lc))
            first == trans /\ finding_min_endstop
        IN
        /\ finding_min_endstop' = IF first THEN FALSE ELSE finding_min_endstop
        /\ loop_counter_check' = IF first
                                  THEN Deadline(lc, config_.min_ms_homing)
                                  ELSE loop_counter_check
        /\ axis1' = [axis1 EXCEPT
                        !.loop_counter_ = lc,
                        !.homing = IF trans /\ (~first \/ ~config_.max_enabled)
                                   THEN FALSE ELSE @,
                        !.left = @ - 1]
    /\ UNCHANGED <<pc, task_chain_, requested_state_, error_, homing_state_,
                   loop_counter_, armed, is_calibrated_, is_ready_, config_, status,
                   ramp, writes_left, ticks_left, faults_left, loaded, trace, all_ok,
                   tick_in, zero_run, pos, stepvars, encvars, own>>

Next ==
    \/ WriteRequest
    \/ MotorDisarms
    \/ ArmAtStart
    \/ LoadBegin
    \/ LoadCompare
    \/ LoadRequested
    \/ LoadEnd
    \/ NoRequest
    \/ ValidateState
    \/ RunMotorCalibration
    \/ RunIndexSearch
    \/ RunOffsetCalibration
    \/ HomeAxis
    \/ EnterSensorless
    \/ EnterClosedLoop
    \/ EnterIdle
    \/ InvalidState
    \/ AdvanceTaskChain
    \/ TickClosedLoop
    \/ TickSensorless
    \/ TickSpinUp1
    \/ TickSpinUp2
    \/ TickIdle

Spec == Init /\ [][Next]_vars

(* ------------------------------------------------------------------ *)
(* Request expansion over every configuration                           *)
(* ------------------------------------------------------------------ *)
InitExpand ==
    /\ InitCommon
    /\ requested_state_ \in State_t \ {AXIS_STATE_UNDEFINED}
    /\ loop_counter_ = U32(0, 0)
    /\ is_calibrated_ \in BOOLEAN
    /\ is_ready_ = is_calibrated_
    /\ config_ \in {c \in Configs : /\ c.min_enabled /\ c.max_enabled
                                    /\ c.enable_step_dir
                                    /\ c.home_percentage = 0 /\ c.offset = 0}
    /\ writes_left = 0
    /\ ticks_left = 0
    /\ faults_left = 0
    /\ steps_left = 0
    /\ shadow_range = {0}
    /\ axis1 = NoAxis

NextExpand ==
    \/ ArmAtStart
    \/ LoadBegin
    \/ LoadCompare
    \/ LoadRequested
    \/ LoadEnd
    \/ ValidateState

SpecExpand == InitExpand /\ [][NextExpand]_vars

(* ------------------------------------------------------------------ *)
(* A homing request on a calibrated axis, without further requests; the *)
(* tick counter starts at 0 or two ticks before it wraps                *)
(* ------------------------------------------------------------------ *)
InitHoming ==
    /\ InitCommon
    /\ requested_state_ = AXIS_STATE_HOMING
    /\ loop_counter_ \in {U32(0, 0), U32(HALF - 1, HALF - 2)}
    /\ is_calibrated_ = TRUE
    /\ is_ready_ = TRUE
    /\ config_ \in RunConfigs
    /\ writes_left = 0
    /\ ticks_left = MaxHomingTicks
    /\ faults_left = MaxFaults
    /\ steps_left = 0
    /\ shadow_range = {0}
    /\ axis1 = NoAxis

NextHoming ==
    \/ MotorDisarms
    \/ ArmAtStart
    \/ LoadBegin
    \/ LoadCompare
    \/ LoadEnd
    \/ NoRequest
    \/ ValidateState
    \/ HomeAxis
    \/ EnterClosedLoop
    \/ EnterIdle
    \/ AdvanceTaskChain
    \/ TickClosedLoop
    \/ TickIdle

SpecHoming == InitHoming /\ [][NextHoming]_vars

(* ------------------------------------------------------------------ *)
(* Two Axis instances on one board: the first runs a homing request,    *)
(* the second enters closed-loop control and homes at any moment        *)
(* ------------------------------------------------------------------ *)
InitTwoAxes ==
    /\ InitCommon
    /\ requested_state_ = AXIS_STATE_HOMING
    /\ loop_counter_ = U32(0, 0)
    /\ is_calibrated_ = TRUE
    /\ is_ready_ = TRUE
    /\ config_ \in RunConfigs
    /\ writes_left = 0
    /\ ticks_left = MaxHomingTicks
    /\ faults_left = 0
    /\ steps_left = 0
    /\ shadow_range = {0}
    /\ axis1 = OtherAxis

NextTwoAxes ==
    \/ Axis1EnterClosedLoop
    \/ Axis1Tick
    \/ ArmAtStart
    \/ LoadBegin
    \/ LoadCompare
    \/ LoadEnd
    \/ NoRequest
    \/ ValidateState
    \/ HomeAxis
    \/ EnterClosedLoop
    \/ AdvanceTaskChain
    \/ TickClosedLoop

SpecTwoAxes == InitTwoAxes /\ [][NextTwoAxes]_vars

(* ------------------------------------------------------------------ *)
(* A control state requested on a calibrated axis, with edges on the    *)
(* step pin at any moment and step/dir enabled or not in the config     *)
(* ------------------------------------------------------------------ *)
InitStepDir ==
    /\ InitCommon
    /\ requested_state_ \in {AXIS_STATE_HOMING, AXIS_STATE_CLOSED_LOOP_CONTROL,
                             AXIS_STATE_SENSORLESS_CONTROL}
    /\ loop_counter_ = U32(0, 0)
    /\ is_calibrated_ = TRUE
    /\ is_ready_ = TRUE
    /\ config_ \in {[c EXCEPT !.enable_step_dir = b] : c \in RunConfigs, b \in BOOLEAN}
    /\ writes_left = 0
    /\ ticks_left = MaxTicks
    /\ faults_left = MaxFaults
    /\ steps_left = MaxSteps
    /\ shadow_range = {0}
    /\ axis1 = NoAxis

NextStepDir ==
    \/ StepEdge
    \/ MotorDisarms
    \/ ArmAtStart
    \/ LoadBegin
    \/ LoadCompare
    \/ LoadRequested
    \/ LoadEnd
    \/ NoRequest
    \/ ValidateState
    \/ HomeAxis
    \/ EnterSensorless
    \/ EnterClosedLoop
    \/ EnterIdle
    \/ InvalidState
    \/ AdvanceTaskChain
    \/ TickClosedLoop
    \/ TickSensorless
    \/ TickSpinUp1
    \/ TickSpinUp2
    \/ TickIdle

SpecStepDir == InitStepDir /\ [][NextStepDir]_vars

(* ------------------------------------------------------------------ *)
(* A homing run over both endstops with the encoder reporting counts    *)
(* of a travel of up to 100, for several home percentages; no faults    *)
(* ------------------------------------------------------------------ *)
InitLinearCount ==
    /\ InitCommon
    /\ requested_state_ = AXIS_STATE_HOMING
    /\ loop_counter_ = U32(0, 0)
    /\ is_calibrated_ = TRUE
    /\ is_ready_ = TRUE
    /\ config_ \in {c \in Configs :
                      /\ c.startup_motor_calibration /\ c.startup_encoder_index_search
                      /\ c.startup_encoder_offset_calibration /\ c.use_index
                      /\ c.startup_closed_loop_control /\ c.startup_homing
                      /\ ~c.startup_sensorless_control /\ c.enable_step_dir
                      /\ c.min_enabled /\ c.max_enabled}
    /\ writes_left = 0
    /\ ticks_left = MaxHomingTicks
    /\ faults_left = 0
    /\ steps_left = 0
    /\ shadow_range = {0, 75, 100}
    /\ axis1 = NoAxis

NextLinearCount ==
    \/ ArmAtStart
    \/ LoadBegin
    \/ LoadCompare
    \/ LoadEnd
    \/ NoRequest
    \/ ValidateState
    \/ HomeAxis
    \/ EnterClosedLoop
    \/ AdvanceTaskChain
    \/ TickClosedLoop

SpecLinearCount == InitLinearCount /\ [][NextLinearCount]_vars

(* ------------------------------------------------------------------ *)
(* Properties                                                           *)
(* ------------------------------------------------------------------ *)
UndefinedAt(tc) == {i \in 0..(TASK_CHAIN_LEN - 1) : tc[i] = AXIS_STATE_UNDEFINED}

\* the entries in front of the first Undefined
ChainLength(tc) ==
    IF UndefinedAt(tc) = {} THEN TASK_CHAIN_LEN
    ELSE CHOOSE i \in UndefinedAt(tc) : \A j \in UndefinedAt(tc) : i <= j

Chain(tc) == [i \in 1..ChainLength(tc) |-> tc[i - 1]]

Has(seq, st) == \E i \in 1..Len(seq) : seq[i] = st

JustLoaded(req) == pc = "validate" /\ loaded.fresh /\ loaded.req = req

\* C1: when the dispatched handler has returned, a true status shifts the task
\* chain left by one (the former task_chain[1] becomes current_state), a false
\* status sets current_state to Idle and leaves task_chain[1..] in place.
C1_AdvanceOrIdle ==
    [][(pc = "advance" /\ pc' = "top") =>
        IF status
        THEN \A i \in 0..(TASK_CHAIN_LEN - 2) : task_chain_'[i] = task_chain_[i + 1]
        ELSE /\ task_chain_'[0] = AXIS_STATE_IDLE
             /\ \A i \in 1..(TASK_CHAIN_LEN - 1) : task_chain_'[i] = task_chain_[i]]_vars

\* a full calibration sequence whose first handler succeeded has moved on
C1_Witness ==
    /\ pc = "top"
    /\ loaded.req = AXIS_STATE_FULL_CALIBRATION_SEQUENCE
    /\ all_ok
    /\ trace = <<AXIS_STATE_MOTOR_CALIBRATION>>
    /\ current_state_ = AXIS_STATE_ENCODER_INDEX_SEARCH

\* position of a state in the order the startup sequence lists them
StartupRank(st) ==
    CASE st = AXIS_STATE_MOTOR_CALIBRATION -> 1
      [] st = AXIS_STATE_ENCODER_INDEX_SEARCH -> 2
      [] st = AXIS_STATE_ENCODER_OFFSET_CALIBRATION -> 3
      [] st = AXIS_STATE_HOMING -> 4
      [] st = AXIS_STATE_CLOSED_LOOP_CONTROL -> 5
      [] st = AXIS_STATE_SENSORLESS_CONTROL -> 5
      [] st = AXIS_STATE_IDLE -> 6
      [] OTHER -> 0

StartupOrdered(seq) ==
    /\ \A i \in 1..Len(seq) : StartupRank(seq[i]) > 0
    /\ \A i, j \in 1..Len(seq) : i < j => StartupRank(seq[i]) < StartupRank(seq[j])
    /\ Has(seq, AXIS_STATE_HOMING) => Has(seq, AXIS_STATE_CLOSED_LOOP_CONTROL)
    /\ ~(Has(seq, AXIS_STATE_CLOSED_LOOP_CONTROL) /\ Has(seq, AXIS_STATE_SENSORLESS_CONTROL))
    /\ Has(seq, AXIS_STATE_IDLE)

\* C2: the chain loaded for a StartupSequence request lists MotorCalibration,
\* EncoderIndexSearch, EncoderOffsetCalibration, Homing, one of ClosedLoopControl
\* or SensorlessControl, Idle in that relative order and then Undefined; Homing
\* only with ClosedLoopControl, never both control states, Idle always.
C2_StartupOrder ==
    JustLoaded(AXIS_STATE_STARTUP_SEQUENCE) =>
        /\ StartupOrdered(Chain(task_chain_))
        /\ ChainLength(task_chain_) < TASK_CHAIN_LEN
        /\ task_chain_[ChainLength(task_chain_)] = AXIS_STATE_UNDEFINED

\* the longest startup chain has been loaded
C2_Witness ==
    /\ JustLoaded(AXIS_STATE_STARTUP_SEQUENCE)
    /\ Chain(task_chain_) = <<AXIS_STATE_MOTOR_CALIBRATION, AXIS_STATE_ENCODER_INDEX_SEARCH,
                              AXIS_STATE_ENCODER_OFFSET_CALIBRATION, AXIS_STATE_HOMING,
                              AXIS_STATE_CLOSED_LOOP_CONTROL, AXIS_STATE_IDLE>>

FullCalibrationOrder ==
    <<AXIS_STATE_MOTOR_CALIBRATION, AXIS_STATE_ENCODER_INDEX_SEARCH,
      AXIS_STATE_ENCODER_OFFSET_CALIBRATION, AXIS_STATE_IDLE>>

IsPrefix(a, b) == Len(a) <= Len(b) /\ \A i \in 1..Len(a) : a[i] = b[i]

\* C3: a FullCalibrationSequence request with use_index, matched by the
\* comparison of line 332, loads MotorCalibration, EncoderIndexSearch,
\* EncoderOffsetCalibration, Idle, Undefined, and while every handler returns
\* true and no new request is written the handlers are dispatched in that order,
\* each once, with nothing in between.
C3_FullCalibration ==
    (/\ loaded.req = AXIS_STATE_FULL_CALIBRATION_SEQUENCE /\ ~loaded.copied
     /\ config_.use_index) =>
        /\ (pc = "validate" /\ loaded.fresh) =>
              /\ Chain(task_chain_) = FullCalibrationOrder
              /\ ChainLength(task_chain_) = 4
        /\ (all_ok /\ requested_state_ = AXIS_STATE_UNDEFINED) =>
              IsPrefix(trace, FullCalibrationOrder)

\* all four handlers of the sequence were dispatched and the idle loop runs
C3_Witness ==
    /\ loaded.req = AXIS_STATE_FULL_CALIBRATION_SEQUENCE
    /\ ~loaded.copied
    /\ config_.use_index
    /\ all_ok
    /\ requested_state_ = AXIS_STATE_UNDEFINED
    /\ trace = FullCalibrationOrder
    /\ pc = "idle_loop"

\* a ClosedLoopControl request was loaded without its prerequisites
Blocked == loaded.req = AXIS_STATE_CLOSED_LOOP_CONTROL /\ ~loaded.prereq

\* C4: a ClosedLoopControl request loaded while the motor is not calibrated or
\* the encoder is not ready never reaches the closed-loop handler: current_state
\* is Undefined at dispatch, InvalidState is set, and the iteration ends in Idle.
C4_ClosedLoopBlocked ==
    [][/\ Blocked' => pc' # "closed_loop"
       /\ (Blocked' /\ loaded'.fresh /\ pc' = "dispatch") =>
             current_state_' = AXIS_STATE_UNDEFINED
       /\ (Blocked /\ loaded.fresh /\ pc = "dispatch" /\ pc' # pc) =>
             /\ pc' = "advance"
             /\ ~status'
             /\ ERROR_INVALID_STATE \in error_'
       /\ (Blocked /\ loaded.fresh /\ pc = "advance" /\ pc' = "top") =>
             /\ current_state_' = AXIS_STATE_IDLE
             /\ ERROR_INVALID_STATE \in error_']_vars

\* the blocked request has fallen to Idle with InvalidState set
C4_Witness ==
    /\ Blocked
    /\ ~is_calibrated_
    /\ is_ready_
    /\ pc = "top"
    /\ ~loaded.fresh
    /\ current_state_ = AXIS_STATE_IDLE
    /\ task_chain_[1] = AXIS_STATE_IDLE
    /\ ERROR_INVALID_STATE \in error_

\* C5 as stated: an Idle request loads Idle at index 0 and the Undefined
\* terminator at index 1.
C5_IdleChainOriginal ==
    JustLoaded(AXIS_STATE_IDLE) =>
        /\ task_chain_[0] = AXIS_STATE_IDLE
        /\ task_chain_[1] = AXIS_STATE_UNDEFINED

\* the Idle handler is running for one of the two Idle entries of an Idle request
RunningIdleRequest ==
    /\ loaded.req = AXIS_STATE_IDLE
    /\ Len(SelectSeq(Chain(task_chain_), LAMBDA st : st # AXIS_STATE_IDLE)) = 0
    /\ ChainLength(task_chain_) \in {1, 2}

\* C5: an Idle request loads Idle, Idle, Undefined (the requested state, the
\* trailing Idle, the terminator at index 2); loading it sets no error bit, and
\* while its Idle entries run the axis sets no bit of its own: only bits for
\* faults the board reports in that tick appear.
C5_IdleChain ==
    [][/\ (pc = "ld343" /\ loaded.req = AXIS_STATE_IDLE /\ pc' = "validate") =>
             /\ task_chain_'[0] = AXIS_STATE_IDLE
             /\ task_chain_'[1] = AXIS_STATE_IDLE
             /\ task_chain_'[2] = AXIS_STATE_UNDEFINED
             /\ error_' \subseteq error_
       /\ (RunningIdleRequest /\ pc \in {"validate", "dispatch"}) => error_' \subseteq error_
       /\ (RunningIdleRequest /\ pc = "idle_loop" /\ ticks_left' # ticks_left) =>
             /\ tick_in'.own_bits = {}
             /\ ERROR_CONTROL_LOOP_MISSED \notin error_' \ error_
             /\ ERROR_MOTOR_DISARMED \notin error_' \ error_]_vars

\* the first Idle entry of an Idle request idles through a timed-out wait
C5_Witness ==
    /\ RunningIdleRequest
    /\ ChainLength(task_chain_) = 2
    /\ pc = "idle_loop"
    /\ tick_in.kind = "idle_loop"
    /\ tick_in.timeout
    /\ error_ = {}

\* C6 as stated: Undefined occurs in task_chain exactly once.
C6_UndefinedOnceOriginal == Cardinality(UndefinedAt(task_chain_)) = 1

\* C6: Undefined occurs in task_chain at least once (the array starts all
\* Undefined, stale entries stay behind the terminator, validation overwrites
\* entry 0), and right after a request expansion the first Undefined is the
\* terminator of that expansion, directly behind the states it wrote.
C6_Terminated ==
    /\ UndefinedAt(task_chain_) # {}
    /\ (pc = "validate" /\ loaded.fresh) =>
          /\ pos >= 2
          /\ ChainLength(task_chain_) = pos - 1
          /\ Chain(task_chain_) \in {Expand(loaded.req, config_), ExpandOther(loaded.req)}

\* a shorter chain was loaded over a longer one: stale states follow the terminator
C6_Witness ==
    /\ pc = "validate"
    /\ loaded.fresh
    /\ \E i \in 0..(TASK_CHAIN_LEN - 1) :
          i > ChainLength(task_chain_) /\ task_chain_[i] # AXIS_STATE_UNDEFINED

\* C7: whenever the Idle handler is dispatched the motor is disarmed before the
\* first idle tick, whatever the error bits and the previous arm state, and the
\* axis arms the motor again only once the idle tick loop has returned.
C7_IdleDisarmed ==
    [][/\ (pc = "dispatch" /\ current_state_ = AXIS_STATE_IDLE /\ pc' # pc) =>
             (pc' = "idle_loop" /\ ~armed')
       /\ pc' = "idle_loop" => ~armed'
       /\ (~armed /\ armed') => (pc \in {"start", "idle_loop"} /\ pc' \in {"top", "advance"})]_vars

\* the idle loop has ticked with error bits set and the motor disarmed
C7_Witness ==
    /\ pc = "idle_loop"
    /\ tick_in.kind = "idle_loop"
    /\ ~tick_in.exit
    /\ error_ # {}
    /\ ~armed

Ticked == ticks_left' # ticks_left

\* C8: a wait that times out outside Idle sets ControlLoopMissed in that tick,
\* ends the control loop with the handler reporting failure, current_state
\* becomes Idle and the Idle handler disarms the motor; a wait that times out in
\* Idle sets no ControlLoopMissed and does not end the idle loop.
C8_MissedTick ==
    [][/\ (Ticked /\ tick_in'.timeout /\ pc # "idle_loop") =>
             /\ tick_in'.missed
             /\ ERROR_CONTROL_LOOP_MISSED \in error_'
             /\ pc' = "advance"
             /\ ~status'
       /\ (pc = "advance" /\ tick_in.missed /\ pc' = "top") =>
             (current_state_' = AXIS_STATE_IDLE /\ loaded'.missed)
       /\ (loaded.missed /\ pc = "dispatch" /\ pc' # pc) =>
             (pc' = "idle_loop" /\ ~armed')
       /\ (Ticked /\ tick_in'.timeout /\ pc = "idle_loop") =>
             /\ ~tick_in'.missed
             /\ ERROR_CONTROL_LOOP_MISSED \notin error_' \ error_
             /\ (error_' = {} /\ requested_state_ = AXIS_STATE_UNDEFINED) => pc' = "idle_loop"]_vars

\* after a missed closed-loop tick the axis idles, disarmed, with the bit set
C8_Witness ==
    /\ loaded.missed
    /\ pc = "idle_loop"
    /\ ~armed
    /\ ERROR_CONTROL_LOOP_MISSED \in error_
    /\ loaded.req = AXIS_STATE_CLOSED_LOOP_CONTROL

\* C9 as stated: homing_state != Inactive implies current_state == ClosedLoopControl.
C9_HomingOnlyInClosedLoop ==
    homing_state_ # HOMING_STATE_INACTIVE => current_state_ = AXIS_STATE_CLOSED_LOOP_CONTROL

\* C10 as stated: a homing phase transition needs the phase's endstop asserted in
\* that tick, or zero velocity on every tick of a window of min_ms_homing.
C10_SustainedOriginal ==
    tick_in.trans => (tick_in.endstop \/ tick_in.zr >= Window(config_.min_ms_homing))

\* C10: a homing phase transition happens in a tick only if the phase's endstop
\* is asserted in that tick, or the velocity estimate is 0 in that tick and
\* loop_counter has reached loop_counter_check; earlier ticks are not examined.
C10_DeadlineOnly ==
    tick_in.trans => (tick_in.endstop \/ (tick_in.vel_zero /\ tick_in.reached))

\* a transition without endstop after a window in which the motor was moving
C10_Witness ==
    /\ tick_in.trans
    /\ ~tick_in.endstop
    /\ tick_in.vel_zero
    /\ tick_in.zr < Window(config_.min_ms_homing)
    /\ ~finding_min_endstop

\* n / d truncated towards zero
TruncDiv(n, d) == IF n >= 0 THEN n \div d ELSE -((-n) \div d)

\* C11 as stated: after the phase-2 transition with home_percentage p > 0 the
\* value passed to set_linear_count is total_cpr * p / 100 truncated to an
\* integer, total_cpr being the shadow count at the phase-2 transition minus the
\* shadow count recorded at the phase-1 transition.
C11_LinearCount ==
    (/\ tick_in.trans /\ homing_state_ = HOMING_STATE_MOVE_TO_ZERO
     /\ config_.max_enabled /\ config_.home_percentage > 0) =>
        linear_count = TruncDiv((own.second - own.first) * config_.home_percentage, 100)

C19_StepDirInsideHandlers ==
    [][/\ enable_step_dir_' =>
            \/ pc' = "closed_loop" /\ current_state_' = AXIS_STATE_CLOSED_LOOP_CONTROL
            \/ pc' = "sensorless_loop" /\ current_state_' = AXIS_STATE_SENSORLESS_CONTROL
       /\ (pc \in {"closed_loop", "sensorless_loop"} /\ pc' # pc) => ~enable_step_dir_'
       /\ (steps_left' < steps_left /\ pc \notin {"closed_loop", "sensorless_loop"}) =>
            pos_setpoint_' = pos_setpoint_]_vars

\* a handler ran with step/dir enabled and counted an edge, returned, and a
\* later edge was ignored
C19_Witness ==
    /\ pc \notin {"closed_loop", "sensorless_loop"}
    /\ ~enable_step_dir_
    /\ own.steps # 0
    /\ own.ignored
    /\ pos_setpoint_ = own.steps * config_.counts_per_step

\* C13: the Axis never clears an error bit other than InvalidState, and it
\* clears InvalidState only in the step that ends the expansion of a request
\* that was not Undefined.
C13_OnlyInvalidStateCleared ==
    [][/\ (error_ \ {ERROR_INVALID_STATE}) \subseteq error_'
       /\ (ERROR_INVALID_STATE \in error_ /\ ERROR_INVALID_STATE \notin error_') =>
            /\ pc = "ld343"
            /\ pc' = "validate"
            /\ loaded'.req # AXIS_STATE_UNDEFINED
            /\ pos' >= 2]_vars

\* an expansion has just cleared InvalidState and another bit is still set
C13_Witness ==
    /\ pc = "validate"
    /\ loaded.fresh
    /\ loaded.had_invalid
    /\ ERROR_INVALID_STATE \notin error_
    /\ error_ # {}

\* C14 as stated: once the idle tick loop has started it returns only when
\* requested_state_ holds a value other than Undefined; error bits, set before
\* or accumulated by do_updates / do_checks during Idle, do not end it.
C14_IdleLeavesOnRequestOnly ==
    [][(pc = "idle_loop" /\ pc' # "idle_loop") =>
            requested_state_ # AXIS_STATE_UNDEFINED]_vars

\* C18 as stated: after a handler of a task chain returned false while entries
\* of that chain had not run yet, none of those entries reaches the dispatch,
\* unless a new request was expanded in between: the chain is not resumed by a
\* shift after the failure.
C18_FailedChainAbandoned ==
    pc = "dispatch" => ~loaded.resumed

\* C15 as stated: a closed-loop tick whose body runs with homing_state_
\* MoveToZero sets homing_state_ to Inactive when the min endstop is asserted
\* in that tick; when it is not asserted the tick plans the trapezoidal
\* trajectory to position 0 again and homing_state_ stays MoveToZero.
C15_MoveToZeroExit ==
    [][(pc = "closed_loop" /\ ticks_left' < ticks_left /\ tick_in'.move_to_zero) =>
            IF tick_in'.min
            THEN homing_state_' = HOMING_STATE_INACTIVE
            ELSE tick_in'.replan /\ homing_state_' = HOMING_STATE_MOVE_TO_ZERO]_vars

\* C16 as stated: with two Axis instances on the board, the homing phase flag
\* and the homing deadline that an Axis evaluates in its next closed-loop tick
\* are the ones that Axis itself assigned last; no step of the other Axis
\* changes them.
C16_OwnHomingState ==
    pc = "closed_loop" =>
        (finding_min_endstop = own.finding /\ loop_counter_check = own.check)

\* C20: for every requested state and every combination of the config flags
\* the request expansion writes at most 7 entries, the Undefined terminator
\* included: the write index pos stays below the capacity of task_chain_ and
\* the entries from index 7 on are never written.
C20_ExpansionFits ==
    /\ pos <= 7
    /\ pos < TASK_CHAIN_LEN
    /\ \A i \in 7..(TASK_CHAIN_LEN - 1) : task_chain_[i] = AXIS_STATE_UNDEFINED

\* the longest expansion: six states and the terminator at index 6
C20_Witness ==
    /\ pc = "validate"
    /\ pos = 7
    /\ ChainLength(task_chain_) = 6
    /\ task_chain_[6] = AXIS_STATE_UNDEFINED

\* C17 as stated: no request is lost. When the expansion ends and stores
\* Undefined into requested_state_, the value it overwrites is the one whose
\* expansion was loaded, and the chain loaded is the expansion of that single
\* written value, whatever writes of requested_state_ fell between the reads
\* of lines 311..339 and the store of line 343.
C17_NoRequestLost ==
    [][(pc = "ld343" /\ pc' = "validate") =>
            /\ requested_state_ = loaded.req
            /\ Chain(task_chain_') = Expand(loaded.req, config_)]_vars

====
